---- MODULE Spec2Model ----
(***************************************************************************)
(* SentinelStream: the rule-based fraud detector (fraud_detection.py) and  *)
(* the POST /evaluate handler that feeds it from the transaction store     *)
(* (api.py).                                                               *)
(*                                                                         *)
(* Time is counted in whole hours, so timedelta(hours=1) is OneHour.       *)
(* Python dicts are functions on strings; a key the JSON document lacks is *)
(* a key outside DOMAIN, and d[k] on it is the KeyError outcome.           *)
(***************************************************************************)
EXTENDS Integers, Sequences, FiniteSets, TLC

VARIABLES source, detector, config, now, history, call, pin, vel,
          utc, db, served, response

vars == <<source, detector, config, now, history, call, pin, vel,
          utc, db, served, response>>

(***************************************************************************)
(* Bounds of the model.                                                    *)
(***************************************************************************)
MaxClock == 2
MaxHist == 3
MaxRequests == 3

OneHour == 1

(***************************************************************************)
(* Input domains.                                                          *)
(***************************************************************************)
Amounts == {500, 1000, 1001, 5000, 5001, 10000, 10001, 25000}
Locations == {"US", "HighRiskCountry"}
Merchants == {"Amazon", "GamblingSite"}
HistAmounts == {5000}
Timestamps == 0..MaxClock
Entries == [amount : HistAmounts, timestamp : Timestamps]

(***************************************************************************)
(* Configuration documents.                                                *)
(***************************************************************************)
DefaultConfig ==
    [high_risk_locations |-> {"HighRiskCountry", "Unknown"},
     risky_merchants |-> {"GamblingSite", "CryptoExchange"},
     amount_thresholds |-> [low |-> 1000, medium |-> 5000, high |-> 10000],
     velocity_rules |-> [max_transactions_per_hour |-> 3,
                         max_amount_per_hour |-> 20000],
     risk_weights |-> [amount_high |-> 50, amount_medium |-> 30,
                       amount_low |-> 10, location |-> 40, merchant |-> 30,
                       velocity_count |-> 60, velocity_amount |-> 50]]

\* A well-formed document with its own weights; velocity_count is left to
\* the .get fallback.
CustomConfig ==
    [high_risk_locations |-> {"HighRiskCountry"},
     risky_merchants |-> {"GamblingSite"},
     amount_thresholds |-> [low |-> 1000, medium |-> 5000, high |-> 10000],
     velocity_rules |-> [max_transactions_per_hour |-> 2,
                         max_amount_per_hour |-> 20000],
     risk_weights |-> [amount_high |-> 49, amount_medium |-> 20,
                       amount_low |-> 19, location |-> 30, merchant |-> 1,
                       velocity_amount |-> 100]]

\* Parseable JSON objects that lack a required field.
NoThresholdsConfig ==
    [high_risk_locations |-> {"HighRiskCountry", "Unknown"},
     risky_merchants |-> {"GamblingSite", "CryptoExchange"},
     velocity_rules |-> [max_transactions_per_hour |-> 3,
                         max_amount_per_hour |-> 20000]]

NoVelocityRulesConfig ==
    [high_risk_locations |-> {"HighRiskCountry", "Unknown"},
     risky_merchants |-> {"GamblingSite", "CryptoExchange"},
     amount_thresholds |-> [low |-> 1000, medium |-> 5000, high |-> 10000]]

NoConfig == [none |-> TRUE]

\* What the config path may hold: no file, a file json.load accepts, or a
\* file json.load rejects.
AbsentSource == [exists |-> FALSE, parses |-> FALSE, document |-> NoConfig]
FileSource(doc) == [exists |-> TRUE, parses |-> TRUE, document |-> doc]
UnparsableSource == [exists |-> TRUE, parses |-> FALSE, document |-> NoConfig]

ValidSources == {AbsentSource, FileSource(CustomConfig)}
InvalidSources == {FileSource(NoThresholdsConfig),
                   FileSource(NoVelocityRulesConfig)}
Sources == ValidSources \cup InvalidSources \cup {UnparsableSource}

RequiredFields == {"high_risk_locations", "risky_merchants",
                   "amount_thresholds", "velocity_rules"}

(***************************************************************************)
(* FraudDetector                                                           *)
(***************************************************************************)
\* _load_config: the outcome of construction and the config it yields.
LoadConfig(src) ==
    IF ~src.exists THEN [outcome |-> "built", config |-> DefaultConfig]
    ELSE IF ~src.parses THEN [outcome |-> "failed", config |-> NoConfig]
    ELSE [outcome |-> "built", config |-> src.document]

\* dict.get(key, default)
Get(d, k, default) == IF k \in DOMAIN d THEN d[k] ELSE default

Weights(cfg) == Get(cfg, "risk_weights", [none |-> TRUE])

Min(a, b) == IF a <= b THEN a ELSE b

RECURSIVE SumAmounts(_)
SumAmounts(s) == IF s = <<>> THEN 0 ELSE Head(s).amount + SumAmounts(Tail(s))

IsRecent(e, t) == e.timestamp > t - OneHour

RecentTxns(hist, t) == SelectSeq(hist, LAMBDA e : IsRecent(e, t))

\* The transaction being evaluated is counted with the recent ones.
CountFiresWithCurrent(recent, rules) ==
    Len(recent) + 1 >= rules.max_transactions_per_hour

CountFires(recent, rules) == Len(recent) >= rules.max_transactions_per_hour

AmountFires(recent, current_amount, rules) ==
    SumAmounts(recent) + current_amount > rules.max_amount_per_hour

CountReason(rules) ==
    "Velocity: > " \o ToString(rules.max_transactions_per_hour) \o " txns/hour"

AmountReason(rules) ==
    "Velocity: > " \o ToString(rules.max_amount_per_hour) \o " amount/hour"

\* _check_velocity(current_amount, history) at clock reading t
CheckVelocity(cfg, current_amount, hist, t) ==
    IF "velocity_rules" \notin DOMAIN cfg
    THEN [outcome |-> "KeyError", risk |-> 0, reasons |-> <<>>]
    ELSE
    LET rules == cfg.velocity_rules
        weights == Weights(cfg)
        recent == RecentTxns(hist, t)
        c == CountFires(recent, rules)
        a == AmountFires(recent, current_amount, rules)
    IN [outcome |-> "ok",
        risk |-> (IF c THEN Get(weights, "velocity_count", 60) ELSE 0)
                 + (IF a THEN Get(weights, "velocity_amount", 50) ELSE 0),
        reasons |-> (IF c THEN <<CountReason(rules)>> ELSE <<>>)
                    \o (IF a THEN <<AmountReason(rules)>> ELSE <<>>)]

\* The tiers compared with >= instead of >.
AmountTierInclusive(amount, thresholds) ==
    IF amount >= thresholds.high THEN "high"
    ELSE IF amount >= thresholds.medium THEN "medium"
    ELSE IF amount >= thresholds.low THEN "low"
    ELSE "none"

\* The amount tier: "none", "low", "medium" or "high".
AmountTier(amount, thresholds) ==
    IF amount > thresholds.high THEN "high"
    ELSE IF amount > thresholds.medium THEN "medium"
    ELSE IF amount > thresholds.low THEN "low"
    ELSE "none"

TierWeight(tier, weights) ==
    CASE tier = "high" -> Get(weights, "amount_high", 50)
      [] tier = "medium" -> Get(weights, "amount_medium", 30)
      [] tier = "low" -> Get(weights, "amount_low", 10)
      [] OTHER -> 0

AmountText(threshold) == "Amount > " \o ToString(threshold)

TierReasons(tier, thresholds) ==
    IF tier = "none" THEN <<>> ELSE <<AmountText(thresholds[tier])>>

LocationText(location) == "High risk location: " \o location

MerchantText(merchant) == "Risky merchant: " \o merchant

\* if transaction_history: None and the empty list are both falsy.
HistoryTruthy(hist) == hist.supplied /\ hist.entries # <<>>

\* The sum is returned as it is.
CapScoreMissing(score) == score

CapScore(score) == Min(score, 100)

\* The level thresholds compared with > instead of >=.
RiskLevelStrict(score) ==
    IF score > 80 THEN "CRITICAL"
    ELSE IF score > 50 THEN "HIGH"
    ELSE IF score > 20 THEN "MEDIUM"
    ELSE "LOW"

RiskLevel(score) ==
    IF score >= 80 THEN "CRITICAL"
    ELSE IF score >= 50 THEN "HIGH"
    ELSE IF score >= 20 THEN "MEDIUM"
    ELSE "LOW"

\* The cap also drops the reason that took the score over 100.
CapReasonsTrimmed(score, reasons) ==
    IF score > 100 THEN SubSeq(reasons, 1, Len(reasons) - 1) ELSE reasons

\* Line 69 caps risk_score only; reasons is returned as it was appended to.
CapReasons(score, reasons) == reasons

Failure ==
    [outcome |-> "KeyError", amount_score |-> 0, raw |-> 0,
     velocity_ran |-> FALSE, velocity_risk |-> 0,
     risk_score |-> 0, risk_level |-> "", reasons |-> <<>>]

\* The body of evaluate_risk from a running score of start, at clock reading
\* t.  amount_score, raw, velocity_ran and velocity_risk are the values of
\* the locals after the amount check, before the cap, and around the
\* velocity call.
RunRules(start, cfg, amount, location, merchant, hist, t) ==
    IF \/ "amount_thresholds" \notin DOMAIN cfg
       \/ "high_risk_locations" \notin DOMAIN cfg
       \/ "risky_merchants" \notin DOMAIN cfg
    THEN Failure
    ELSE
    LET weights == Weights(cfg)
        thresholds == cfg.amount_thresholds
        tier == AmountTier(amount, thresholds)
        s1 == start + TierWeight(tier, weights)
        r1 == TierReasons(tier, thresholds)
        loc == location \in cfg.high_risk_locations
        s2 == s1 + (IF loc THEN Get(weights, "location", 40) ELSE 0)
        r2 == r1 \o (IF loc THEN <<LocationText(location)>> ELSE <<>>)
        mer == merchant \in cfg.risky_merchants
        s3 == s2 + (IF mer THEN Get(weights, "merchant", 30) ELSE 0)
        r3 == r2 \o (IF mer THEN <<MerchantText(merchant)>> ELSE <<>>)
        ran == HistoryTruthy(hist)
        v == IF ran THEN CheckVelocity(cfg, amount, hist.entries, t)
             ELSE [outcome |-> "ok", risk |-> 0, reasons |-> <<>>]
        s4 == s3 + v.risk
        r4 == r3 \o v.reasons
        score == CapScore(s4)
    IN IF v.outcome # "ok" THEN Failure
       ELSE [outcome |-> "ok", amount_score |-> s1, raw |-> s4,
             velocity_ran |-> ran, velocity_risk |-> v.risk,
             risk_score |-> score, risk_level |-> RiskLevel(score),
             reasons |-> CapReasons(s4, r4)]

\* The score is kept between calls instead of starting at 0.
EvaluateRiskCarried(cfg, amount, location, merchant, hist, t) ==
    RunRules(call.risk_score, cfg, amount, location, merchant, hist, t)

\* evaluate_risk(amount, location, merchant, transaction_history): the
\* score is a local that starts at 0 on every call.
EvaluateRisk(cfg, amount, location, merchant, hist, t) ==
    RunRules(0, cfg, amount, location, merchant, hist, t)

(***************************************************************************)
(* State                                                                   *)
(***************************************************************************)
NoHistory == [supplied |-> FALSE, entries |-> <<>>]
Supplied(entries) == [supplied |-> TRUE, entries |-> entries]

EntryLists == UNION {[1..n -> Entries] : n \in 0..MaxHist}

Histories == {NoHistory} \cup {Supplied(s) : s \in EntryLists}

NoCall ==
    [amount |-> 0, location |-> "", merchant |-> "", now |-> 0,
     outcome |-> "none", amount_score |-> 0, raw |-> 0,
     velocity_ran |-> FALSE, velocity_risk |-> 0,
     risk_score |-> 0, risk_level |-> "", reasons |-> <<>>]

CallRecord(amount, location, merchant, t, res) ==
    [amount |-> amount, location |-> location, merchant |-> merchant,
     now |-> t, outcome |-> res.outcome, amount_score |-> res.amount_score,
     raw |-> res.raw, velocity_ran |-> res.velocity_ran,
     velocity_risk |-> res.velocity_risk, risk_score |-> res.risk_score,
     risk_level |-> res.risk_level, reasons |-> res.reasons]

NoVel == [amount |-> 0, now |-> 0, outcome |-> "none", risk |-> 0,
          reasons |-> <<>>]

NoResponse == [status |-> 0, transaction_id |-> "", risk_score |-> 0,
               risk_level |-> "", reasons |-> <<>>]

Idle ==
    /\ call = NoCall
    /\ pin = NoCall
    /\ vel = NoVel
    /\ utc = 0
    /\ db = <<>>
    /\ served = 0
    /\ response = NoResponse

\* The clock reading of the calls and the list the caller passes are inputs.
Init ==
    /\ source \in Sources
    /\ detector = "unbuilt"
    /\ config = NoConfig
    /\ now \in 0..MaxClock
    /\ history \in Histories
    /\ Idle

\* FraudDetector(config_path)
Construct ==
    /\ detector = "unbuilt"
    /\ detector' = LoadConfig(source).outcome
    /\ config' = LoadConfig(source).config
    /\ UNCHANGED <<source, now, history, call, pin, vel, utc, db, served,
                   response>>

\* The wall clock (datetime.now) moves on between calls.
Tick ==
    /\ now < MaxClock
    /\ now' = now + 1
    /\ UNCHANGED <<source, detector, config, history, call, pin, vel, utc,
                   db, served, response>>

EvaluateWith(amounts, locations, merchants) ==
    /\ detector = "built"
    /\ \E amount \in amounts, location \in locations, merchant \in merchants :
          call' = CallRecord(amount, location, merchant, now,
                     EvaluateRisk(config, amount, location, merchant,
                                  history, now))
    /\ UNCHANGED <<source, detector, config, now, history, pin, vel, utc,
                   db, served, response>>

\* detector.evaluate_risk(amount, location, merchant, history)
Evaluate == EvaluateWith(Amounts, Locations, Merchants)

Next == Construct \/ Evaluate

Spec == Init /\ [][Next]_vars

(***************************************************************************)
(* _check_velocity applied on its own to a list of entries.                *)
(***************************************************************************)
InitVelocity ==
    /\ source \in Sources
    /\ detector = "unbuilt"
    /\ config = NoConfig
    /\ now = 0
    /\ history \in {Supplied(s) : s \in EntryLists}
    /\ Idle

\* detector._check_velocity(current_amount, history)
Velocity ==
    /\ detector = "built"
    /\ \E amount \in Amounts :
          LET v == CheckVelocity(config, amount, history.entries, now)
          IN vel' = [amount |-> amount, now |-> now, outcome |-> v.outcome,
                     risk |-> v.risk, reasons |-> v.reasons]
    /\ UNCHANGED <<source, detector, config, now, history, call, pin, utc,
                   db, served, response>>

NextVelocity == Construct \/ Tick \/ Velocity

SpecVelocity == InitVelocity /\ [][NextVelocity]_vars

(***************************************************************************)
(* Repeated calls: an earlier call is kept in pin and compared with the    *)
(* latest one.                                                             *)
(***************************************************************************)
TwiceAmounts == {1001, 25000}
TwiceMerchants == {"Amazon"}

InitTwice ==
    /\ source \in ValidSources
    /\ detector = "unbuilt"
    /\ config = NoConfig
    /\ now = 0
    /\ history \in Histories
    /\ Idle

EvaluateAgain == EvaluateWith(TwiceAmounts, Locations, TwiceMerchants)

\* The caller keeps the result of a call.
Keep ==
    /\ call.outcome = "ok"
    /\ pin # call
    /\ pin' = call
    /\ UNCHANGED <<source, detector, config, now, history, call, vel, utc,
                   db, served, response>>

NextTwice == Construct \/ Tick \/ EvaluateAgain \/ Keep

SpecTwice == InitTwice /\ [][NextTwice]_vars

(***************************************************************************)
(* POST /evaluate over the transaction store                               *)
(***************************************************************************)
TransactionIds == {"txn_1", "txn_2"}
ApiAmounts == {5000, 25000}
ApiMerchants == {"Amazon"}
Requests ==
    [transaction_id : TransactionIds, amount : ApiAmounts,
     location : Locations, merchant : ApiMerchants]

\* datetime.now() is local time, datetime.utcnow() is UTC: the two clocks
\* differ by the zone's offset.
TzOffsets == {0, 1}

ApiSources == {AbsentSource, FileSource(NoThresholdsConfig)}

InitApi ==
    /\ source \in ApiSources
    /\ detector = "unbuilt"
    /\ config = NoConfig
    /\ now \in TzOffsets
    /\ history = NoHistory
    /\ Idle

TickApi ==
    /\ utc < MaxClock
    /\ utc' = utc + 1
    /\ now' = now + 1
    /\ UNCHANGED <<source, detector, config, history, call, pin, vel, db,
                   served, response>>

\* db.query(Transaction).filter(Transaction.timestamp >= one_hour_ago).all()
RecentRows(rows, t) == SelectSeq(rows, LAMBDA r : r.timestamp >= t - OneHour)

HistoryDicts(rows) ==
    [i \in DOMAIN rows |->
        [amount |-> rows[i].amount, timestamp |-> rows[i].timestamp]]

\* db.query(Transaction).filter(transaction_id == id).first()
ExistingTxn(rows, id) == \E i \in DOMAIN rows : rows[i].transaction_id = id

NewTxn(req, t) ==
    [transaction_id |-> req.transaction_id, amount |-> req.amount,
     location |-> req.location, merchant |-> req.merchant, timestamp |-> t]

\* The transaction is saved without looking for its id.
SaveTxnAlways(rows, req, t) == Append(rows, NewTxn(req, t))

\* Step 4 of the handler: save the transaction unless its id is stored.
SaveTxn(rows, req, t) ==
    IF ExistingTxn(rows, req.transaction_id) THEN rows
    ELSE Append(rows, NewTxn(req, t))

\* evaluate_transaction(request): the handler is a coroutine without an
\* await, so it runs to completion on the event loop.
PostEvaluate ==
    /\ detector = "built"
    /\ served < MaxRequests
    /\ \E req \in Requests :
          LET history_dicts == HistoryDicts(RecentRows(db, utc))
              result == EvaluateRisk(config, req.amount, req.location,
                                     req.merchant, Supplied(history_dicts),
                                     now)
          IN IF result.outcome = "ok"
             THEN /\ db' = SaveTxn(db, req, utc)
                  /\ response' = [status |-> 200,
                                  transaction_id |-> req.transaction_id,
                                  risk_score |-> result.risk_score,
                                  risk_level |-> result.risk_level,
                                  reasons |-> result.reasons]
             ELSE /\ db' = db
                  /\ response' = [status |-> 500,
                                  transaction_id |-> req.transaction_id,
                                  risk_score |-> 0, risk_level |-> "",
                                  reasons |-> <<>>]
    /\ served' = served + 1
    /\ UNCHANGED <<source, detector, config, now, history, call, pin, vel,
                   utc>>

NextApi == Construct \/ TickApi \/ PostEvaluate

SpecApi == InitApi /\ [][NextApi]_vars

(***************************************************************************)
(* Properties                                                              *)
(***************************************************************************)
Has(reasons, text) == \E i \in DOMAIN reasons : reasons[i] = text

RecentIndices(entries, t) ==
    {i \in DOMAIN entries : entries[i].timestamp > t - OneHour}

RECURSIVE TotalOf(_, _)
TotalOf(entries, indices) ==
    IF indices = {} THEN 0
    ELSE LET i == CHOOSE j \in indices : TRUE
         IN entries[i].amount + TotalOf(entries, indices \ {i})

RecentTotal(entries, t) == TotalOf(entries, RecentIndices(entries, t))

\* C1: every result of evaluate_risk carries a risk_score between 0 and 100,
\* whatever rules fired (all configured weights are non-negative).
C1_ScoreWithinBounds ==
    call.outcome = "ok" => call.risk_score \in 0..100

C1_Witness ==
    /\ call.outcome = "ok"
    /\ call.raw > 100
    /\ call.risk_score = 100

AmountReasonIndices ==
    LET th == config.amount_thresholds
    IN {i \in DOMAIN call.reasons :
           call.reasons[i] \in {AmountText(th.low), AmountText(th.medium),
                                AmountText(th.high)}}

OnlyAmountReason(text) ==
    /\ Cardinality(AmountReasonIndices) = 1
    /\ \A i \in AmountReasonIndices : call.reasons[i] = text

\* C2: the amount tiers have strict lower bounds and exclude each other: at or
\* below low nothing is added; in (low, medium] exactly amount_low and
\* "Amount > {low}"; in (medium, high] exactly amount_medium and
\* "Amount > {medium}"; above high exactly amount_high and "Amount > {high}";
\* a result never holds two amount reasons.
C2_AmountTiers ==
    call.outcome = "ok" =>
      LET th == config.amount_thresholds
          w == Weights(config)
          a == call.amount
      IN /\ a <= th.low =>
              call.amount_score = 0 /\ AmountReasonIndices = {}
         /\ (a > th.low /\ a <= th.medium) =>
              /\ call.amount_score = Get(w, "amount_low", 10)
              /\ OnlyAmountReason("Amount > " \o ToString(th.low))
         /\ (a > th.medium /\ a <= th.high) =>
              /\ call.amount_score = Get(w, "amount_medium", 30)
              /\ OnlyAmountReason("Amount > " \o ToString(th.medium))
         /\ a > th.high =>
              /\ call.amount_score = Get(w, "amount_high", 50)
              /\ OnlyAmountReason("Amount > " \o ToString(th.high))
         /\ Cardinality(AmountReasonIndices) <= 1

C2_Witness ==
    /\ call.outcome = "ok"
    /\ call.amount = 5000
    /\ call.amount_score = 10
    /\ call.reasons = <<"Amount > 1000">>

LevelOfScore(score) ==
    CASE score \in 0..19 -> "LOW"
      [] score \in 20..49 -> "MEDIUM"
      [] score \in 50..79 -> "HIGH"
      [] score \in 80..100 -> "CRITICAL"

LevelRank(level) ==
    CASE level = "LOW" -> 0
      [] level = "MEDIUM" -> 1
      [] level = "HIGH" -> 2
      [] level = "CRITICAL" -> 3

\* C3: the risk_level of a result is the level of its capped risk_score: 0-19
\* LOW, 20-49 MEDIUM, 50-79 HIGH, 80-100 CRITICAL; and over 0..100 the level
\* never decreases as the score increases.
C3_LevelFromScore ==
    /\ call.outcome = "ok" => call.risk_level = LevelOfScore(call.risk_score)
    /\ call.outcome = "ok" =>
          \A s \in 0..call.risk_score :
             LevelRank(RiskLevel(s)) <= LevelRank(call.risk_level)

C3_Witness ==
    /\ call.outcome = "ok"
    /\ call.risk_score = 20
    /\ call.risk_level = "MEDIUM"

StrictlyAfterCutoff(entries, t) ==
    SelectSeq(entries, LAMBDA e : ~(e.timestamp <= t - OneHour))

\* C4: entries at or before now - 1h never contribute: a call with a history
\* returns what the call with only the entries strictly after the cutoff
\* returns.
C4_OldEntriesNeverContribute ==
    (call.outcome = "ok" /\ history.supplied) =>
      LET r == EvaluateRisk(config, call.amount, call.location, call.merchant,
                            Supplied(StrictlyAfterCutoff(history.entries,
                                                         call.now)),
                            call.now)
      IN /\ r.outcome = "ok"
         /\ r.risk_score = call.risk_score
         /\ r.risk_level = call.risk_level
         /\ r.reasons = call.reasons

\* C5: _check_velocity adds the count weight and reason exactly when the
\* recent entries, without the transaction being evaluated, number at least
\* max_transactions_per_hour, and the amount weight and reason exactly when
\* the recent amounts plus the current amount exceed max_amount_per_hour;
\* each check adds its own weight and reason whatever the other does.
C5_VelocityChecks ==
    vel.outcome = "ok" =>
      LET rules == config.velocity_rules
          w == Weights(config)
          count == Cardinality(RecentIndices(history.entries, vel.now))
          total == RecentTotal(history.entries, vel.now) + vel.amount
          countDue == count >= rules.max_transactions_per_hour
          amountDue == total > rules.max_amount_per_hour
          countText == "Velocity: > "
                       \o ToString(rules.max_transactions_per_hour)
                       \o " txns/hour"
          amountText == "Velocity: > "
                        \o ToString(rules.max_amount_per_hour)
                        \o " amount/hour"
      IN /\ Has(vel.reasons, countText) <=> countDue
         /\ Has(vel.reasons, amountText) <=> amountDue
         /\ vel.risk = (IF countDue THEN Get(w, "velocity_count", 60) ELSE 0)
                       + (IF amountDue THEN Get(w, "velocity_amount", 50)
                          ELSE 0)
         /\ Len(vel.reasons) = (IF countDue THEN 1 ELSE 0)
                               + (IF amountDue THEN 1 ELSE 0)

\* Three recent entries meet the count limit of 3 while 15000 + 5000 stays at
\* the amount limit of 20000.
C5_Witness ==
    /\ vel.outcome = "ok"
    /\ config = DefaultConfig
    /\ Cardinality(RecentIndices(history.entries, vel.now)) = 3
    /\ vel.amount = 5000
    /\ vel.reasons = <<"Velocity: > 3 txns/hour">>
    /\ vel.risk = 60

\* C6: the velocity evaluation runs whenever a history is supplied, the empty
\* list included, so an amount that alone exceeds max_amount_per_hour gets the
\* velocity_amount reason also with an empty history.
C6_VelocityWhenHistorySupplied ==
    (call.outcome = "ok" /\ history.supplied
       /\ "velocity_rules" \in DOMAIN config) =>
      /\ call.velocity_ran
      /\ (RecentTotal(history.entries, call.now) + call.amount
            > config.velocity_rules.max_amount_per_hour)
           => Has(call.reasons, AmountReason(config.velocity_rules))

Optional(fired, text) == IF fired THEN <<text>> ELSE <<>>

ExpectedReasons ==
    LET th == config.amount_thresholds
        a == call.amount
        evaluated == history.supplied /\ Len(history.entries) > 0
        rules == config.velocity_rules
        count == Cardinality(RecentIndices(history.entries, call.now))
        total == RecentTotal(history.entries, call.now) + a
    IN Optional(a > th.low,
                "Amount > " \o ToString(IF a > th.high THEN th.high
                                        ELSE IF a > th.medium THEN th.medium
                                        ELSE th.low))
       \o Optional(call.location \in config.high_risk_locations,
                   "High risk location: " \o call.location)
       \o Optional(call.merchant \in config.risky_merchants,
                   "Risky merchant: " \o call.merchant)
       \o (IF evaluated
           THEN Optional(count >= rules.max_transactions_per_hour,
                         "Velocity: > "
                         \o ToString(rules.max_transactions_per_hour)
                         \o " txns/hour")
                \o Optional(total > rules.max_amount_per_hour,
                            "Velocity: > "
                            \o ToString(rules.max_amount_per_hour)
                            \o " amount/hour")
           ELSE <<>>)

\* C7: reasons holds one entry per rule that fired, in the order amount,
\* location, merchant, velocity count, velocity amount, also when the sum of
\* the weights is over 100 and the score is capped.
C7_ReasonsSurviveCap ==
    call.outcome = "ok" => call.reasons = ExpectedReasons

C7_Witness ==
    /\ call.outcome = "ok"
    /\ call.raw > 100
    /\ call.risk_score = 100
    /\ Len(call.reasons) = 5

\* C8: a config source that is present but lacks a required field builds no
\* engine, so no evaluate_risk call fails on a missing config field.
C8_InvalidSourceBuildsNoEngine ==
    /\ (source.exists /\ ~(RequiredFields \subseteq DOMAIN source.document))
          => detector # "built"
    /\ call.outcome # "KeyError"

SameArguments ==
    /\ pin.amount = call.amount
    /\ pin.location = call.location
    /\ pin.merchant = call.merchant

SameResult ==
    /\ pin.risk_score = call.risk_score
    /\ pin.risk_level = call.risk_level
    /\ pin.reasons = call.reasons

\* The same entries lie within the last hour at both calls.
SameWindow ==
    \A i \in DOMAIN history.entries :
       (history.entries[i].timestamp > pin.now - OneHour)
         <=> (history.entries[i].timestamp > call.now - OneHour)

\* C9 as stated: two calls with the same amount, location, merchant and
\* history under the same config return the same result whenever they are
\* made.
C9_SameResultWhenever ==
    (pin.outcome = "ok" /\ call.outcome = "ok" /\ SameArguments) => SameResult

\* C9 as amended: two calls with the same arguments under the same config
\* return the same result when the same history entries lie within the last
\* hour at both calls, whatever calls happen between them; and a call changes
\* neither the config nor the history.
C9_SameResultSameWindow ==
    /\ []((pin.outcome = "ok" /\ call.outcome = "ok" /\ SameArguments
             /\ SameWindow) => SameResult)
    /\ [][call' # call => (config' = config /\ history' = history)]_vars

C9_Witness ==
    /\ pin.outcome = "ok"
    /\ call.outcome = "ok"
    /\ SameArguments
    /\ SameWindow
    /\ pin.now # call.now
    /\ call.velocity_ran
    /\ call.velocity_risk > 0

IdsStored(rows) == {rows[i].transaction_id : i \in DOMAIN rows}

\* C10: the store holds at most one row per transaction_id: an answered
\* request whose id is new appends one row, and an answered request whose id
\* is stored leaves the store as it is.
C10_OneRowPerTransactionId ==
    /\ [](\A i, j \in DOMAIN db :
            db[i].transaction_id = db[j].transaction_id => i = j)
    /\ [][(served' # served /\ response'.status = 200) =>
            IF response'.transaction_id \in IdsStored(db)
            THEN db' = db
            ELSE /\ Len(db') = Len(db) + 1
                 /\ SubSeq(db', 1, Len(db)) = db
                 /\ db'[Len(db')].transaction_id = response'.transaction_id]_vars

\* Two requests answered, one row stored: the second repeated the first id.
C10_Witness ==
    /\ served = 2
    /\ response.status = 200
    /\ Len(db) = 1

====
